---- MODULE Spec2Model ----
(***************************************************************************)
(* Model of src/mock_uvvis_controller.py: MockUVVisController, the mock    *)
(* UV-Vis spectrometer, and the MockSpectrumData values it returns.        *)
(*                                                                         *)
(* Numbers.  A numpy float array is modelled as a record                   *)
(*     [den |-> d, val |-> <<v1, ..., vk>>]                                 *)
(* that stands for the real vector v1/d, ..., vk/d, so that linspace, the  *)
(* scaling by integration_time_us / 100000 and the mean over n runs are    *)
(* exact rational arithmetic.  exp() and sqrt() are computed in fixed      *)
(* point (ExpNeg, ISqrt).  A draw of np.random.normal is a choice among    *)
(* NumDraws noise arrays.  The timestamp field (datetime.now()) is left    *)
(* out: no operation reads it.                                             *)
(*                                                                         *)
(* Objects.  A Python dict is an entry of the heap `dicts`, and a          *)
(* MockSpectrumData holds the heap id of its metadata, so that two names   *)
(* for one dict are two uses of one id.  Dicts that nothing refers to any  *)
(* more are dropped from the heap (garbage collection).                    *)
(***************************************************************************)
EXTENDS Integers, Sequences, FiniteSets, TLC

(***************************************************************************)
(* Program constants                                                       *)
(***************************************************************************)
NumPoints == 2048
WavelengthStart == 200
WavelengthStop == 1100
DefaultIntegrationTime == 100000
ReferenceIntegrationTime == 100000
OptimalIntegrationTime == 120000
BaseFloor == 40000
BaseAmplitude == 10000
BaseCenter == 500
BaseVariance == 50000
Absorption1Amplitude == -15000
Absorption1Center == 450
Absorption1Variance == 500
Absorption2Amplitude == -8000
Absorption2Center == 650
Absorption2Variance == 800
NoiseSigma == 500

(***************************************************************************)
(* Bounds of the model                                                     *)
(***************************************************************************)
\* number of distinct outcomes of one np.random.normal draw
NumDraws == 2
\* largest n_measurements passed to measure_multiple_spectra
MaxN == 2
\* number of earlier results the caller keeps (specification SpecHeld)
MaxHeld == 1

\* Python None; an Optional argument is the empty set or a one-element set
None == {}

NotConnected == "RuntimeError: Spectrometer not connected"
UnboundLocal == "UnboundLocalError: local variable 'data' referenced before assignment"
NoError == "no error"

(***************************************************************************)
(* Arithmetic helpers                                                      *)
(***************************************************************************)
RECURSIVE GCD(_, _)
GCD(a, b) == IF b = 0 THEN a ELSE GCD(b, a % b)

Abs(x) == IF x < 0 THEN -x ELSE x

\* fixed-point scale of ExpNeg: ExpNeg returns ExpScale * exp(-x)
ExpScale == 10000
\* ExpScale * exp(-1)
ExpMinusOne == 3679
\* resolution of the fractional part of the exponent
FracScale == 1000

RECURSIVE ExpInt(_)
\* ExpScale * exp(-q) for a natural number q
ExpInt(q) == IF q = 0 THEN ExpScale
             ELSE IF q >= 10 THEN 0
             ELSE (ExpInt(q - 1) * ExpMinusOne) \div ExpScale

RECURSIVE ExpFracTerms(_, _, _)
\* the alternating Taylor series of exp(-f / FracScale), from term k on
ExpFracTerms(f, k, term) ==
    IF term = 0 \/ k > 12 THEN 0
    ELSE LET next == (term * f) \div (FracScale * k)
         IN  (IF k % 2 = 1 THEN -next ELSE next) + ExpFracTerms(f, k + 1, next)

\* ExpScale * exp(-f / FracScale) for 0 <= f <= FracScale
ExpFrac(f) == ExpScale + ExpFracTerms(f, 1, ExpScale)

\* ExpScale * exp(-(num / den)), for num >= 0 and den a multiple of FracScale
ExpNeg(num, den) ==
    LET q == num \div den
        f == (num % den) \div (den \div FracScale)
    IN  (ExpInt(q) * ExpFrac(f)) \div ExpScale

RECURSIVE ISqrtIter(_, _, _)
ISqrtIter(v, lo, hi) ==
    IF lo >= hi THEN lo
    ELSE LET mid == (lo + hi + 1) \div 2
         IN  IF mid * mid <= v THEN ISqrtIter(v, mid, hi)
                               ELSE ISqrtIter(v, lo, mid - 1)

\* floor of the square root of a natural number below 2^30
ISqrt(v) == ISqrtIter(v, 0, 32767)

(***************************************************************************)
(* numpy arrays                                                            *)
(***************************************************************************)
\* a freshly allocated array: every element is computed when it is built
NewArray(elements) == elements \o <<>>

\* a table of precomputed values: every entry is computed when it is built
NewTable(entries) == entries @@ <<>>

\* np.linspace(start, stop, num): num evenly spaced points, both ends included
Linspace(start, stop, num) ==
    [den |-> num - 1,
     val |-> NewArray([i \in 1..num |-> start * (num - 1) + (i - 1) * (stop - start)])]

\* a + b, elementwise, for arrays of one denominator
ArrayAdd(a, b) ==
    [den |-> a.den, val |-> NewArray([i \in 1..Len(a.val) |-> a.val[i] + b.val[i]])]

\* a * (num / den), elementwise
ArrayScale(a, num, den) ==
    LET g == GCD(num, den)
    IN  [den |-> a.den * (den \div g),
         val |-> NewArray([i \in 1..Len(a.val) |-> a.val[i] * (num \div g)])]

\* the wavelength axis built by __init__
Axis == Linspace(WavelengthStart, WavelengthStop, NumPoints)

\* (w[i] - center)**2, in units of 0.01 nm^2
SqDevOf(w, i, center) ==
    LET d == w.val[i] - center * w.den
        d10 == (Abs(d) * 10) \div w.den
    IN  d10 * d10

\* amplitude * np.exp(-(w - center)**2 / variance)
GaussianOf(w, amplitude, center, variance) ==
    [den |-> 1,
     val |-> NewArray([i \in 1..Len(w.val) |->
                (amplitude * ExpNeg(SqDevOf(w, i, center), 100 * variance)) \div ExpScale])]

\* (wavelengths[i] - center)**2 on the axis as built
SqDev(i, center) == SqDevOf(Axis, i, center)

\* amplitude * np.exp(-(self.wavelengths - center)**2 / variance) on the axis as built
Gaussian(amplitude, center, variance) == GaussianOf(Axis, amplitude, center, variance)

Constant(c) == [den |-> 1, val |-> NewArray([i \in 1..NumPoints |-> c])]

(***************************************************************************)
(* Inputs                                                                  *)
(***************************************************************************)
\* values of the serial_number argument of __init__
SerialNumbers == {"MOCK-001", "SN-42"}
\* values of the integration_time_us argument, when given
IntegrationTimes == {100000, 200000}
\* values of the Optional integration_time_us argument
IntegrationTimeArgs == {None} \cup {{t} : t \in IntegrationTimes}
\* values of the spectrum_type argument
SpectrumTypes == {"reference", "sample", "smaple"}
\* outcomes of one np.random.normal(0, 500, len(self.wavelengths)) call
NoiseDraws == 1..NumDraws
\* values of the n_measurements argument
MeasurementCounts == -1..MaxN
\* values of target_counts and max_iterations
TargetCounts == {0, 50000}
MaxIterations == {0, 5}

\* the keys measure_spectrum writes into the metadata
FixedKeys == {"serial_number", "dark_corrected", "nonlinearity_corrected", "mock"}
\* heap id of the dict the caller owns and passes as metadata
CallerDict == 1
\* a dict of the caller with entries of its own under the fixed keys
ConflictingMetadata ==
    [operator |-> "alice", serial_number |-> "USER-SN", dark_corrected |-> TRUE,
     nonlinearity_corrected |-> TRUE, mock |-> FALSE]
\* contents of the caller's dict before the first call
CallerMetadata == {[operator |-> "alice"], ConflictingMetadata}
\* values of the Optional metadata argument
MetadataArgs == {None, {CallerDict}}

\* the default of the parameter spectrum_type of both measuring operations
DefaultSpectrumType == "sample"

\* the calls of measure_spectrum: the spectrum varies with the metadata left
\* at its default, and the metadata varies with the spectrum left at its default
MeasureSpectrumArgs ==
    [integration_time_us : IntegrationTimeArgs, correct_dark_counts : {FALSE},
     correct_nonlinearity : {FALSE}, metadata : {None}, spectrum_type : SpectrumTypes]
    \cup
    [integration_time_us : {None}, correct_dark_counts : BOOLEAN,
     correct_nonlinearity : BOOLEAN, metadata : MetadataArgs,
     spectrum_type : {DefaultSpectrumType}]

\* the calls of measure_multiple_spectra: the count varies with the spectrum
\* left at its default, and the spectrum varies for a single run
MeasureMultipleArgs ==
    [n_measurements : MeasurementCounts, integration_time_us : {None},
     average : BOOLEAN, spectrum_type : {DefaultSpectrumType}]
    \cup
    [n_measurements : {1}, integration_time_us : IntegrationTimeArgs,
     average : BOOLEAN, spectrum_type : SpectrumTypes]

\* the calls of optimize_integration_time
OptimizeArgs == [target_counts : TargetCounts, max_iterations : MaxIterations]

\* the arguments of a call without arguments
NoArgs == [k \in {} |-> TRUE]

(***************************************************************************)
(* _generate_mock_spectrum                                                 *)
(***************************************************************************)
\* one draw of np.random.normal(0, 500, len(self.wavelengths))
NoiseDraw(s) ==
    [den |-> 1,
     val |-> NewArray([i \in 1..NumPoints |->
                (NoiseSigma \div 2) * (((i * (2 * s + 1) + s) % 7) - 3)])]

Base == ArrayAdd(Constant(BaseFloor), Gaussian(BaseAmplitude, BaseCenter, BaseVariance))
Absorption1 == Gaussian(Absorption1Amplitude, Absorption1Center, Absorption1Variance)
Absorption2 == Gaussian(Absorption2Amplitude, Absorption2Center, Absorption2Variance)

\* base, absorption1 and absorption2 over the axis w: computed once for the
\* axis as built, and anew for an axis that has been written into
SpectrumParts(w) ==
    IF w = Axis
    THEN [base |-> Base, absorption1 |-> Absorption1, absorption2 |-> Absorption2]
    ELSE [base |-> ArrayAdd(Constant(BaseFloor),
                            GaussianOf(w, BaseAmplitude, BaseCenter, BaseVariance)),
          absorption1 |-> GaussianOf(w, Absorption1Amplitude, Absorption1Center,
                                     Absorption1Variance),
          absorption2 |-> GaussianOf(w, Absorption2Amplitude, Absorption2Center,
                                     Absorption2Variance)]

\* a generator that takes only the exact word "sample" for a sample
GenerateMockSpectrumOfSampleOnly(w, spectrum_type, noise) ==
    LET parts == SpectrumParts(w)
    IN  IF spectrum_type = "sample"
        THEN ArrayAdd(ArrayAdd(ArrayAdd(parts.base, parts.absorption1),
                               parts.absorption2), noise)
        ELSE ArrayAdd(parts.base, noise)

\* _generate_mock_spectrum when self.wavelengths is w
GenerateMockSpectrumOf(w, spectrum_type, noise) ==
    LET parts == SpectrumParts(w)
    IN  IF spectrum_type = "reference"
        THEN ArrayAdd(parts.base, noise)
        ELSE ArrayAdd(ArrayAdd(ArrayAdd(parts.base, parts.absorption1),
                               parts.absorption2), noise)

\* _generate_mock_spectrum on the axis as built
GenerateMockSpectrum(spectrum_type, noise) ==
    GenerateMockSpectrumOf(Axis, spectrum_type, noise)

(***************************************************************************)
(* measure_spectrum and measure_multiple_spectra: the values               *)
(***************************************************************************)
\* the stored default, whatever the argument
EffectiveIntegrationTimeDefaultOnly(arg, default) == default

\* line 75-76: the integration time in effect for an Optional argument
EffectiveIntegrationTime(arg, default) ==
    IF arg = None THEN default ELSE CHOOSE t \in arg : TRUE

\* intensities that do not depend on the integration time
ScaleIntensitiesUnscaled(intensities, integration_time_us) == intensities

\* line 82: intensities * (integration_time_us / 100000)
ScaleIntensities(intensities, integration_time_us) ==
    ArrayScale(intensities, integration_time_us, ReferenceIntegrationTime)

\* lines 79-82: the intensities of one measurement
MeasureIntensities(spectrum_type, draw, integration_time_us) ==
    ScaleIntensities(GenerateMockSpectrum(spectrum_type, NoiseDraw(draw)),
                     integration_time_us)

\* the intensities of every measurement the inputs allow, computed once
MeasuredTable ==
    NewTable([k \in SpectrumTypes, s \in NoiseDraws,
              t \in IntegrationTimes \cup {DefaultIntegrationTime}
                 |-> MeasureIntensities(k, s, t)])

\* lines 79-82 when self.wavelengths is w
MeasuredOn(w, spectrum_type, draw, integration_time_us) ==
    IF w = Axis
    THEN MeasuredTable[spectrum_type, draw, integration_time_us]
    ELSE ScaleIntensities(GenerateMockSpectrumOf(w, spectrum_type, NoiseDraw(draw)),
                          integration_time_us)

RECURSIVE SumAt(_, _, _)
\* measurements[1][i] + ... + measurements[j][i]
SumAt(measurements, j, i) ==
    IF j = 0 THEN 0 ELSE measurements[j].val[i] + SumAt(measurements, j - 1, i)

RECURSIVE SumSqDevAt(_, _, _, _)
\* the sum over the first j runs of (n * x - total)^2 at point i
SumSqDevAt(measurements, j, i, total) ==
    IF j = 0 THEN 0
    ELSE LET d == Len(measurements) * measurements[j].val[i] - total
         IN  d * d + SumSqDevAt(measurements, j - 1, i, total)

\* the first run in place of the mean
MeanFirstRun(measurements) == measurements[1]

\* np.mean(measurements, axis=0) of a non-empty list of arrays of one length
Mean(measurements) ==
    LET n == Len(measurements)
    IN  [den |-> measurements[1].den * n,
         val |-> NewArray([i \in 1..Len(measurements[1].val) |-> SumAt(measurements, n, i)])]

\* np.std(measurements, axis=0) of a non-empty list of arrays of one length
Std(measurements) ==
    LET n == Len(measurements)
    IN  [den |-> measurements[1].den * n,
         val |-> NewArray([i \in 1..Len(measurements[1].val) |->
                    ISqrt(SumSqDevAt(measurements, n, i, SumAt(measurements, n, i)) \div n)])]

\* np.array(measurements): the 2-D stack, one row per run
Stack(measurements) ==
    [den |-> IF measurements = <<>> THEN 1 ELSE measurements[1].den,
     rows |-> NewArray([j \in 1..Len(measurements) |-> measurements[j].val])]

\* the noise draws of the n runs of one measure_multiple_spectra call
DrawSeqs(n) == [1..n -> NoiseDraws]

\* mean, std and stack of every series the inputs allow, computed once
SeriesTable ==
    NewTable([k \in SpectrumTypes, t \in IntegrationTimes \cup {DefaultIntegrationTime},
              draws \in UNION {DrawSeqs(n) : n \in 1..MaxN} |->
        LET measurements == NewArray([j \in 1..Len(draws) |-> MeasuredTable[k, draws[j], t]])
        IN  [mean |-> Mean(measurements), std |-> Std(measurements),
             stack |-> Stack(measurements)]])

\* lines 111-137 when self.wavelengths is w: mean, std and stack of the runs
SeriesOn(w, spectrum_type, integration_time_us, draws) ==
    IF w = Axis
    THEN SeriesTable[spectrum_type, integration_time_us, draws]
    ELSE LET measurements ==
                 NewArray([j \in 1..Len(draws) |->
                             MeasuredOn(w, spectrum_type, draws[j], integration_time_us)])
         IN  [mean |-> Mean(measurements), std |-> Std(measurements),
              stack |-> Stack(measurements)]

(***************************************************************************)
(* Python dicts                                                            *)
(***************************************************************************)
\* an update in which the entries already in d win
DictUpdateKeeping(d, e) ==
    [k \in DOMAIN d \cup DOMAIN e |-> IF k \in DOMAIN d THEN d[k] ELSE e[k]]

\* d.update(e): e's entries overwrite d's
DictUpdate(d, e) ==
    [k \in DOMAIN d \cup DOMAIN e |-> IF k \in DOMAIN e THEN e[k] ELSE d[k]]

\* lines 87-92: the dict measure_spectrum merges into the metadata
FixedMetadata(serial, correct_dark_counts, correct_nonlinearity) ==
    [serial_number |-> serial, dark_corrected |-> correct_dark_counts,
     nonlinearity_corrected |-> correct_nonlinearity, mock |-> TRUE]

\* lines 129-134: the metadata of an averaged series
AveragedMetadata(n_measurements, std_intensities) ==
    [n_measurements |-> n_measurements, std_intensities |-> std_intensities,
     averaged |-> TRUE, mock |-> TRUE]

\* a stacked series without the simulated marker
StackedMetadataUnmarked(n_measurements) ==
    [n_measurements |-> n_measurements, averaged |-> FALSE]

\* lines 143-147: the metadata of a stacked series
StackedMetadata(n_measurements) ==
    [n_measurements |-> n_measurements, averaged |-> FALSE, mock |-> TRUE]

\* the dataclass MockSpectrumData (timestamp left out)
MockSpectrumData(w, intensities, integration_time_us, metadata) ==
    [wavelengths |-> w, intensities |-> intensities,
     integration_time_us |-> integration_time_us, metadata |-> metadata]

(***************************************************************************)
(* State                                                                   *)
(***************************************************************************)
VARIABLES
    serial_number,             \* self.serial_number
    is_connected,              \* self.is_connected
    default_integration_time,  \* self._default_integration_time
    wavelengths,               \* self.wavelengths
    dicts,                     \* the heap of dicts: id -> contents
    ret,                       \* the last call: its arguments and its outcome
    held,                      \* earlier results the caller still holds
    lifecycle                  \* the most recent of the calls connect and disconnect

vars == <<serial_number, is_connected, default_integration_time, wavelengths, dicts, ret,
          held, lifecycle>>

EmptyDict == [k \in {} |-> TRUE]

\* a call that returns value; kind is the type of the value, alias names the
\* attribute of the controller that the value is (rather than a copy of it),
\* draws are the outcomes of the random source, log the lines printed
Return(op, args, kind, value, alias, draws, log) ==
    [op |-> op, args |-> args, raised |-> NoError, kind |-> kind, value |-> value,
     alias |-> alias, draws |-> draws, log |-> log, subcalls |-> <<>>]

\* a call that raises error
Raise(op, args, error) ==
    [op |-> op, args |-> args, raised |-> error, kind |-> "none", value |-> None,
     alias |-> "", draws |-> <<>>, log |-> <<>>, subcalls |-> <<>>]

\* the outcome r of a call that made the given calls of its own on the way
WithSubCalls(r, calls) == [r EXCEPT !.subcalls = calls]

\* the dicts the caller can still reach after a call with outcome r
LiveDicts(r, h) ==
    {CallerDict} \cup (IF r.kind = "data" THEN {r.value.metadata} ELSE {})
                 \cup {h[i].metadata : i \in 1..Len(h)}

\* the heap d without the dicts nothing refers to
Collect(d, r, h) == [id \in DOMAIN d \cap LiveDicts(r, h) |-> d[id]]

\* the id of a newly created dict
FreshId(h) ==
    LET used == {CallerDict} \cup {h[i].metadata : i \in 1..Len(h)}
        free == (1..(Cardinality(used) + 1)) \ used
    IN  CHOOSE id \in free : \A other \in free : id <= other

\* the heap d after dict id has been created or overwritten with contents
Store(d, id, contents) ==
    [j \in DOMAIN d \cup {id} |-> IF j = id THEN contents ELSE d[j]]

\* a call ends with outcome r and heap d
Finish(r, d) ==
    /\ ret' = r
    /\ dicts' = Collect(d, r, held)

(***************************************************************************)
(* __init__                                                                *)
(***************************************************************************)
InitOver(serials, contents) ==
    /\ serial_number \in serials
    /\ is_connected = FALSE
    /\ default_integration_time = DefaultIntegrationTime
    /\ wavelengths = Axis
    /\ \E c \in contents : dicts = [id \in {CallerDict} |-> c]
    /\ ret = Return("__init__", NoArgs, "none", None, "", <<>>, <<>>)
    /\ held = <<>>
    /\ lifecycle = "none"

Init == InitOver(SerialNumbers, {ConflictingMetadata})

(***************************************************************************)
(* Operations of MockUVVisController                                       *)
(***************************************************************************)
connect ==
    /\ is_connected' = TRUE
    /\ lifecycle' = "connect"
    /\ Finish(Return("connect", NoArgs, "bool", TRUE, "", <<>>, <<"Connected">>), dicts)
    /\ UNCHANGED <<serial_number, default_integration_time, wavelengths, held>>

\* a disconnect that prints its line but leaves the flag alone
disconnect_keeping_flag ==
    /\ is_connected' = is_connected
    /\ lifecycle' = "disconnect"
    /\ Finish(Return("disconnect", NoArgs, "none", None, "", <<>>,
                     <<"Spectrometer disconnected">>), dicts)
    /\ UNCHANGED <<serial_number, default_integration_time, wavelengths, held>>

disconnect ==
    /\ is_connected' = FALSE
    /\ lifecycle' = "disconnect"
    /\ Finish(Return("disconnect", NoArgs, "none", None, "", <<>>,
                     <<"Spectrometer disconnected">>), dicts)
    /\ UNCHANGED <<serial_number, default_integration_time, wavelengths, held>>

\* a get_wavelengths that connects by itself instead of raising
get_wavelengths_connecting ==
    /\ is_connected' = TRUE
    /\ Finish(Return("get_wavelengths", NoArgs, "array", wavelengths,
                     "self.wavelengths", <<>>, <<>>), dicts)
    /\ UNCHANGED <<serial_number, default_integration_time, wavelengths, held, lifecycle>>

get_wavelengths ==
    /\ IF ~is_connected
       THEN Finish(Raise("get_wavelengths", NoArgs, NotConnected), dicts)
       ELSE Finish(Return("get_wavelengths", NoArgs, "array", wavelengths,
                          "self.wavelengths", <<>>, <<>>), dicts)
    /\ UNCHANGED <<serial_number, is_connected, default_integration_time, wavelengths, held,
                   lifecycle>>

\* measure_spectrum, called with one of the given argument records
MeasureSpectrumOver(calls, draws) ==
    /\ \E a \in calls :
          IF ~is_connected
          THEN Finish(Raise("measure_spectrum", a, NotConnected), dicts)
          ELSE \E draw \in draws :
               LET t == EffectiveIntegrationTime(a.integration_time_us,
                                                 default_integration_time)
                   intensities == MeasuredOn(wavelengths, a.spectrum_type, draw, t)
                   md == IF a.metadata = None THEN FreshId(held)
                         ELSE CHOOSE id \in a.metadata : TRUE
                   before == IF a.metadata = None THEN EmptyDict ELSE dicts[md]
                   after == DictUpdate(before,
                               FixedMetadata(serial_number, a.correct_dark_counts,
                                             a.correct_nonlinearity))
               IN  Finish(Return("measure_spectrum", a, "data",
                                 MockSpectrumData(wavelengths, intensities, t, md),
                                 "", <<draw>>, <<"Measured spectrum">>),
                          Store(dicts, md, after))
    /\ UNCHANGED <<serial_number, is_connected, default_integration_time, wavelengths, held,
                   lifecycle>>

measure_spectrum == MeasureSpectrumOver(MeasureSpectrumArgs, NoiseDraws)

\* a loop that passes the integration time on but leaves the spectrum type
\* of each measurement at its default
SubCallArgsDefaultType(a) ==
    [integration_time_us |-> a.integration_time_us, correct_dark_counts |-> FALSE,
     correct_nonlinearity |-> FALSE, metadata |-> None,
     spectrum_type |-> DefaultSpectrumType]

\* the arguments of the call self.measure_spectrum(integration_time_us=...,
\* spectrum_type=...) in the loop: the other parameters take their defaults
SubCallArgs(a) ==
    [integration_time_us |-> a.integration_time_us, correct_dark_counts |-> FALSE,
     correct_nonlinearity |-> FALSE, metadata |-> None,
     spectrum_type |-> a.spectrum_type]

\* one call of measure_spectrum from the loop: its arguments, and what it
\* measured with (the intensities themselves are gathered by SeriesOn)
SubCall(a, connected, default_time) ==
    LET sub == SubCallArgs(a)
        t == EffectiveIntegrationTime(sub.integration_time_us, default_time)
    IN  IF ~connected
        THEN [op |-> "measure_spectrum", args |-> sub, raised |-> NotConnected,
              log |-> <<>>]
        ELSE [op |-> "measure_spectrum", args |-> sub, raised |-> NoError,
              log |-> <<"Measured spectrum">>,
              spectrum_type |-> sub.spectrum_type, integration_time_us |-> t]

\* the lines the given calls printed, in order
RECURSIVE LogOf(_)
LogOf(calls) ==
    IF calls = <<>> THEN <<>> ELSE calls[1].log \o LogOf(Tail(calls))

\* measure_multiple_spectra, called with one of the given argument records
MeasureMultipleOver(calls, draws) ==
    /\ \E a \in calls :
          IF a.n_measurements < 1
          THEN \* the loop body never runs and `data` is never bound
               Finish(Raise("measure_multiple_spectra", a, UnboundLocal), dicts)
          ELSE IF ~is_connected
          THEN \* the first measure_spectrum call raises
               Finish(WithSubCalls(Raise("measure_multiple_spectra", a, NotConnected),
                                   <<SubCall(a, FALSE, default_integration_time)>>),
                      dicts)
          ELSE \E run \in [1..a.n_measurements -> draws] :
               LET \* the n calls of measure_spectrum, as far as they are used
                   datas == NewArray([j \in 1..a.n_measurements |->
                               SubCall(a, TRUE, default_integration_time)])
                   data == datas[a.n_measurements]
                   series == SeriesOn(wavelengths, data.spectrum_type,
                                      data.integration_time_us, run)
                   md == FreshId(held)
                   log == LogOf(datas)
               IN  IF a.average
                   THEN Finish(WithSubCalls(
                                  Return("measure_multiple_spectra", a, "data",
                                         MockSpectrumData(wavelengths, series.mean,
                                                          data.integration_time_us, md),
                                         "", run, log), datas),
                               Store(dicts, md,
                                     AveragedMetadata(a.n_measurements, series.std)))
                   ELSE Finish(WithSubCalls(
                                  Return("measure_multiple_spectra", a, "data",
                                         MockSpectrumData(wavelengths, series.stack,
                                                          data.integration_time_us, md),
                                         "", run, log), datas),
                               Store(dicts, md, StackedMetadata(a.n_measurements)))
    /\ UNCHANGED <<serial_number, is_connected, default_integration_time, wavelengths, held,
                   lifecycle>>

measure_multiple_spectra == MeasureMultipleOver(MeasureMultipleArgs, NoiseDraws)

\* an optimizer whose answer grows with the target
optimize_integration_time_by_target ==
    /\ \E a \in OptimizeArgs :
          Finish(Return("optimize_integration_time", a, "int",
                        IF a.target_counts = 0 THEN 0 ELSE OptimalIntegrationTime, "",
                        <<>>, <<"Optimizing integration time...",
                                "Optimized integration time">>),
                 dicts)
    /\ UNCHANGED <<serial_number, is_connected, default_integration_time, wavelengths, held,
                   lifecycle>>

optimize_integration_time ==
    /\ \E a \in OptimizeArgs :
          Finish(Return("optimize_integration_time", a, "int", OptimalIntegrationTime, "",
                        <<>>, <<"Optimizing integration time...",
                                "Optimized integration time">>),
                 dicts)
    /\ UNCHANGED <<serial_number, is_connected, default_integration_time, wavelengths, held,
                   lifecycle>>

Next ==
    \/ connect
    \/ disconnect
    \/ get_wavelengths
    \/ measure_spectrum
    \/ measure_multiple_spectra
    \/ optimize_integration_time

Spec == Init /\ [][Next]_vars

(***************************************************************************)
(* The caller keeps results: a second specification, in which the caller   *)
(* holds on to results while it goes on calling the controller             *)
(***************************************************************************)
\* the caller stores the result of the last call in a variable of its own
hold ==
    /\ ret.kind = "data"
    /\ Len(held) < MaxHeld
    /\ \A i \in 1..Len(held) : held[i] # ret.value
    /\ held' = Append(held, ret.value)
    /\ UNCHANGED <<serial_number, is_connected, default_integration_time, wavelengths,
                   dicts, ret, lifecycle>>

HeldSpectrumArgs ==
    [integration_time_us : {None}, correct_dark_counts : BOOLEAN,
     correct_nonlinearity : BOOLEAN, metadata : MetadataArgs, spectrum_type : {"sample"}]

HeldMultipleArgs ==
    [n_measurements : {1}, integration_time_us : {None},
     average : BOOLEAN, spectrum_type : {"sample"}]

InitHeld == InitOver({"MOCK-001"}, CallerMetadata)

NextHeld ==
    \/ connect
    \/ disconnect
    \/ MeasureSpectrumOver(HeldSpectrumArgs, {1})
    \/ MeasureMultipleOver(HeldMultipleArgs, {1})
    \/ hold

SpecHeld == InitHeld /\ [][NextHeld]_vars

(***************************************************************************)
(* The caller writes into what it was handed: a third specification, in    *)
(* which the caller assigns to elements of the arrays it received          *)
(***************************************************************************)
\* the positions the caller writes to: the ends of the axis and one inside
WriteIndices == {1, 2, NumPoints}

\* the values the caller writes
WriteValues == {0}

\* the array a with value at position i (numpy: a[i - 1] = value)
ArrayWrite(a, i, value) == [a EXCEPT !.val[i] = value * a.den]

\* the caller assigns to one element of the array the last call handed out:
\* the result of get_wavelengths, or the wavelengths field of a measurement.
\* The write lands in self.wavelengths when that array is the attribute itself.
write_in_place ==
    /\ ret.raised = NoError
    /\ ret.kind \in {"array", "data"}
    /\ \E i \in WriteIndices, value \in WriteValues :
          /\ wavelengths' = IF ret.kind = "array" /\ ret.alias = "self.wavelengths"
                            THEN ArrayWrite(wavelengths, i, value)
                            ELSE wavelengths
          /\ Finish(Return("write_in_place", [index |-> i, value |-> value], "none", None,
                           "", <<>>, <<>>), dicts)
    /\ UNCHANGED <<serial_number, is_connected, default_integration_time, held, lifecycle>>

AxisSpectrumArgs ==
    [integration_time_us : {None}, correct_dark_counts : {FALSE},
     correct_nonlinearity : {FALSE}, metadata : {None},
     spectrum_type : {"reference", "sample"}]

AxisMultipleArgs ==
    [n_measurements : {1}, integration_time_us : {None},
     average : BOOLEAN, spectrum_type : {"sample"}]

InitAxis == InitOver({"MOCK-001"}, {ConflictingMetadata})

NextAxis ==
    \/ connect
    \/ disconnect
    \/ get_wavelengths
    \/ MeasureSpectrumOver(AxisSpectrumArgs, {1})
    \/ MeasureMultipleOver(AxisMultipleArgs, {1})
    \/ write_in_place

SpecAxis == InitAxis /\ [][NextAxis]_vars

(***************************************************************************)
(* Properties                                                              *)
(***************************************************************************)
\* the last call returned a MockSpectrumData
Returned(op) == ret.op = op /\ ret.raised = NoError

\* the metadata of the MockSpectrumData the last call returned
Metadata == dicts[ret.value.metadata]

\* the last call was one of the measuring operations, with a count of at least 1
MeasuringCall ==
    \/ ret.op \in {"get_wavelengths", "measure_spectrum"}
    \/ ret.op = "measure_multiple_spectra" /\ ret.args.n_measurements >= 1

\* C1: a measuring operation (get_wavelengths, measure_spectrum,
\* measure_multiple_spectra with n_measurements >= 1) raises 'Spectrometer not
\* connected' exactly when the most recent lifecycle call was disconnect() or
\* there was none, and succeeds exactly when it was connect().
C1_ConnectionGuard ==
    MeasuringCall =>
        /\ (ret.raised = "RuntimeError: Spectrometer not connected") <=> (lifecycle # "connect")
        /\ (ret.raised = NoError) <=> (lifecycle = "connect")

\* a measurement fails again after a disconnect
C1_Witness ==
    /\ ret.op = "measure_multiple_spectra"
    /\ ret.args.n_measurements = 1
    /\ ret.raised = NotConnected
    /\ lifecycle = "disconnect"

InvalidArgument == "ValueError: invalid measurement count"

\* C2: measure_multiple_spectra with n_measurements < 1 fails with the
\* invalid-argument ('invalid measurement count') error, whatever average and
\* the connection state are, and returns no MockSpectrumData.
C2_InvalidCountRejected ==
    (ret.op = "measure_multiple_spectra" /\ ret.args.n_measurements < 1) =>
        /\ ret.raised = InvalidArgument
        /\ ret.kind # "data"

\* C3: optimize_integration_time returns exactly 120000 for every target_counts
\* and max_iterations, in every state of the controller, and never raises.
C3_OptimizeConstant ==
    ret.op = "optimize_integration_time" =>
        /\ ret.raised = NoError
        /\ ret.kind = "int"
        /\ ret.value = 120000

\* the optimizer was called with arguments other than the defaults, after the
\* controller had been disconnected
C3_Witness ==
    /\ ret.op = "optimize_integration_time"
    /\ ret.args.target_counts = 0
    /\ ret.args.max_iterations = 0
    /\ lifecycle = "disconnect"

\* C4, as claimed: every MockSpectrumData returned by measure_spectrum or
\* measure_multiple_spectra carries all four fixed keys in its metadata, with
\* mock == True.
C4_AllResultsFixedKeys ==
    ret.kind = "data" =>
        /\ FixedKeys \subseteq DOMAIN Metadata
        /\ Metadata["mock"] = TRUE

\* C4, amended: a result of measure_spectrum carries all four fixed keys with
\* mock == True; a result of measure_multiple_spectra carries mock == True,
\* n_measurements and averaged, and none of serial_number, dark_corrected and
\* nonlinearity_corrected.
C4_FixedKeysBySource ==
    /\ Returned("measure_spectrum") =>
          /\ {"serial_number", "dark_corrected", "nonlinearity_corrected", "mock"}
                \subseteq DOMAIN Metadata
          /\ Metadata["mock"] = TRUE
    /\ Returned("measure_multiple_spectra") =>
          /\ {"mock", "n_measurements", "averaged"} \subseteq DOMAIN Metadata
          /\ Metadata["mock"] = TRUE
          /\ DOMAIN Metadata \cap
                {"serial_number", "dark_corrected", "nonlinearity_corrected"} = {}

\* a stacked series has been returned
C4_Witness ==
    /\ Returned("measure_multiple_spectra")
    /\ ret.args.n_measurements = 2
    /\ ~ret.args.average

\* C5: the metadata of a measure_spectrum result is the caller's entries
\* together with the fixed keys; the fixed keys hold the instance's serial
\* number, the two flags of this call and mock = True, also where the caller
\* had an entry under the same key, and every other entry of the caller is kept.
C5_MetadataMerge ==
    [][(ret'.op = "measure_spectrum" /\ ret'.raised = NoError) =>
          LET before == IF ret'.args.metadata = None THEN EmptyDict
                        ELSE dicts[CHOOSE id \in ret'.args.metadata : TRUE]
              after == dicts'[ret'.value.metadata]
          IN  /\ DOMAIN after = DOMAIN before \cup FixedKeys
              /\ after["serial_number"] = serial_number
              /\ after["dark_corrected"] = ret'.args.correct_dark_counts
              /\ after["nonlinearity_corrected"] = ret'.args.correct_nonlinearity
              /\ after["mock"] = TRUE
              /\ \A k \in DOMAIN before \ FixedKeys : after[k] = before[k]
      ]_vars

\* measure_spectrum has merged into the caller's own dict, which held other
\* values under the fixed keys
C5_Witness ==
    /\ Returned("measure_spectrum")
    /\ ret.args.metadata = {CallerDict}
    /\ ~ret.args.correct_dark_counts
    /\ ret.args.correct_nonlinearity
    /\ Metadata["operator"] = "alice"
    /\ Metadata["dark_corrected"] = FALSE

\* what the caller sees of a result r when the heap is d
ResultView(r, d) ==
    [wavelengths |-> r.wavelengths, intensities |-> r.intensities,
     integration_time_us |-> r.integration_time_us, metadata |-> d[r.metadata]]

\* C6: a MockSpectrumData never changes after it has been returned: whatever
\* the controller is called with later (the same caller mapping with other
\* correction flags included), the metadata, intensities, wavelengths and
\* integration time of a result the caller holds stay as they were.
C6_ResultsImmutable ==
    [][\A i \in 1..Len(held) :
          ResultView(held[i], dicts') = ResultView(held[i], dicts)]_vars

RECURSIVE TotalAt(_, _, _)
\* runs[1][i] + ... + runs[j][i]
TotalAt(runs, j, i) == IF j = 0 THEN 0 ELSE runs[j].val[i] + TotalAt(runs, j - 1, i)

\* the integration time a call asked for
RequestedTime(a) ==
    IF a.integration_time_us = {} THEN 100000 ELSE CHOOSE t \in a.integration_time_us : TRUE

\* C7: on a connected controller, measure_multiple_spectra(n, average) with
\* n >= 1 returns metadata with n_measurements = n and averaged = average; with
\* average the intensities are the elementwise mean of the n runs and they and
\* std_intensities have the length of the wavelength axis; without average the
\* intensities are n rows of the length of the axis.
C7_SeriesShape ==
    Returned("measure_multiple_spectra") =>
        LET a == ret.args
            n == a.n_measurements
            data == ret.value
            runs == [j \in 1..n |->
                       MeasuredTable[a.spectrum_type, ret.draws[j], RequestedTime(a)]]
        IN  /\ n >= 1
            /\ Metadata["n_measurements"] = n
            /\ Metadata["averaged"] = a.average
            /\ a.average =>
                  /\ Len(data.intensities.val) = Len(wavelengths.val)
                  /\ Len(Metadata["std_intensities"].val) = Len(wavelengths.val)
                  /\ \A i \in 1..Len(wavelengths.val) :
                        data.intensities.val[i] * n * runs[1].den
                           = TotalAt(runs, n, i) * data.intensities.den
            /\ ~a.average =>
                  /\ Len(data.intensities.rows) = n
                  /\ \A j \in 1..n :
                        Len(data.intensities.rows[j]) = Len(wavelengths.val)

\* an average over two runs with different noise has been returned
C7_Witness ==
    /\ Returned("measure_multiple_spectra")
    /\ ret.args.n_measurements = 2
    /\ ret.args.average
    /\ ret.draws[1] # ret.draws[2]

\* C8: the integration_time_us of a result is the requested value, or 100000
\* when the argument is omitted, for measure_spectrum and for
\* measure_multiple_spectra (where it is taken from the last run); connect()
\* and measure_spectrum(spectrum_type='reference', integration_time_us=100000)
\* give integration_time_us = 100000, 2048 intensities and mock = True.
C8_IntegrationTimeRecorded ==
    /\ (Returned("measure_spectrum") \/ Returned("measure_multiple_spectra")) =>
          ret.value.integration_time_us = RequestedTime(ret.args)
    /\ ( /\ Returned("measure_spectrum")
         /\ ret.args.spectrum_type = "reference"
         /\ ret.args.integration_time_us = {100000} ) =>
          /\ ret.value.integration_time_us = 100000
          /\ Len(ret.value.intensities.val) = 2048
          /\ Metadata["mock"] = TRUE

\* right after connect(), a reference spectrum was measured at 100000 us
C8_Witness ==
    /\ Returned("measure_spectrum")
    /\ ret.args.spectrum_type = "reference"
    /\ ret.args.integration_time_us = {100000}
    /\ lifecycle = "connect"

\* C9: the intensities measure_spectrum returns for integration time t are the
\* synthesized spectrum of the same kind and noise draw times t / 100000: twice
\* the result for 100000 when t = 200000, the synthesized spectrum itself when
\* t = 100000.
C9_ScalingLaw ==
    Returned("measure_spectrum") =>
        LET a == ret.args
            t == RequestedTime(a)
            got == ret.value.intensities
            raw == GenerateMockSpectrum(a.spectrum_type, NoiseDraw(ret.draws[1]))
            at100000 == MeasuredTable[a.spectrum_type, ret.draws[1], 100000]
        IN  /\ \A i \in 1..NumPoints :
                  got.val[i] * raw.den * 100 = raw.val[i] * (t \div 1000) * got.den
            /\ t = 200000 =>
                  \A i \in 1..NumPoints :
                     got.val[i] * at100000.den = 2 * at100000.val[i] * got.den
            /\ t = 100000 =>
                  \A i \in 1..NumPoints : got.val[i] * raw.den = raw.val[i] * got.den

\* a spectrum has been measured at twice the reference integration time
C9_Witness ==
    /\ Returned("measure_spectrum")
    /\ ret.args.integration_time_us = {200000}
    /\ ret.args.spectrum_type = "sample"

\* C10: a new controller is disconnected with default integration time 100000;
\* connect() leaves it connected and returns True, disconnect() leaves it
\* disconnected, and no other operation, failing or not, changes the connection
\* flag; nothing changes the default integration time.
C10_TwoStateMachine ==
    /\ (~is_connected /\ default_integration_time = 100000)
    /\ [][ /\ ret'.op = "connect" => (is_connected' /\ ret'.value = TRUE)
           /\ ret'.op = "disconnect" => ~is_connected'
           /\ ret'.op \notin {"connect", "disconnect"} => is_connected' = is_connected
           /\ default_integration_time' = default_integration_time
         ]_vars

\* a call has failed on a connected controller and left it connected
C10_Witness ==
    /\ ret.op = "measure_multiple_spectra"
    /\ ret.raised # NoError
    /\ is_connected
    /\ default_integration_time = 100000

\* C11: a successful get_wavelengths returns a strictly increasing sequence of
\* length 2048 from 200 to 1100, the same as the axis built at construction,
\* whatever calls came before and whatever the caller wrote into the arrays
\* it was handed earlier.
C11_AxisImmutable ==
    Returned("get_wavelengths") =>
        /\ Len(ret.value.val) = NumPoints
        /\ ret.value.val[1] = WavelengthStart * ret.value.den
        /\ ret.value.val[NumPoints] = WavelengthStop * ret.value.den
        /\ \A i \in 1..(NumPoints - 1) : ret.value.val[i] < ret.value.val[i + 1]
        /\ ret.value = Axis

\* the arguments the loop of measure_multiple_spectra is to pass on, given
\* the arguments of the last call
PassedOn(sub) ==
    /\ sub.op = "measure_spectrum"
    /\ sub.args.integration_time_us = ret.args.integration_time_us
    /\ sub.args.spectrum_type = ret.args.spectrum_type
    /\ sub.args.correct_dark_counts = FALSE
    /\ sub.args.correct_nonlinearity = FALSE
    /\ sub.args.metadata = None

\* C12: measure_multiple_spectra with n >= 1 on a connected controller
\* returns after exactly n calls of measure_spectrum and exactly n 'Measured
\* spectrum' lines, each call with the given integration time and spectrum
\* type, both correction flags false and no metadata; on a disconnected
\* controller the first such call raises and nothing is measured.
C12_SubCalls ==
    ret.op = "measure_multiple_spectra" /\ ret.args.n_measurements >= 1 =>
        IF is_connected
        THEN /\ ret.raised = NoError
             /\ ret.kind = "data"
             /\ Len(ret.subcalls) = ret.args.n_measurements
             /\ \A j \in 1..Len(ret.subcalls) :
                    PassedOn(ret.subcalls[j]) /\ ret.subcalls[j].raised = NoError
             /\ ret.log = [j \in 1..ret.args.n_measurements |-> "Measured spectrum"]
             /\ Len(ret.draws) = ret.args.n_measurements
        ELSE /\ ret.raised = NotConnected
             /\ Len(ret.subcalls) = 1
             /\ PassedOn(ret.subcalls[1]) /\ ret.subcalls[1].raised = NotConnected
             /\ ret.log = <<>>
             /\ ret.draws = <<>>

\* a connected controller has returned from the largest number of measurements
C12_Witness ==
    /\ Returned("measure_multiple_spectra")
    /\ ret.args.n_measurements = MaxN
    /\ Len(ret.subcalls) = MaxN
    /\ ret.log = [j \in 1..MaxN |-> "Measured spectrum"]

\* the point of the axis nearest to the wavelength center
NearestIndex(center) ==
    CHOOSE i \in 1..NumPoints :
        \A j \in 1..NumPoints :
            Abs(Axis.val[i] - center * Axis.den) <= Abs(Axis.val[j] - center * Axis.den)

\* a is nowhere positive, negative at the point nearest to center, and
\* nowhere lower than there
DipAt(a, center) ==
    LET k == NearestIndex(center)
    IN  /\ a.val[k] < 0
        /\ \A i \in 1..NumPoints : a.val[k] <= a.val[i] /\ a.val[i] <= 0

\* the two absorption terms are dips at 450 and at 650
Dips == DipAt(Absorption1, 450) /\ DipAt(Absorption2, 650)

\* the noise-free part of a reference spectrum at point i: the baseline
ReferenceAt(i) == Base.val[i]

\* the noise-free part of a sample spectrum at point i: the baseline plus
\* both dips
SampleAt(i) == Base.val[i] + Absorption1.val[i] + Absorption2.val[i]

\* the intensities got are, at every point, the noise-free part plus the
\* noise of the draw, scaled by t / 100000
Synthesized(got, NoiseFreeAt(_), draw, t) ==
    LET noise == NoiseDraw(draw)
    IN  \A i \in 1..NumPoints :
           got.val[i] * 100 = (NoiseFreeAt(i) + noise.val[i]) * (t \div 1000) * got.den

\* the last call returned one measured spectrum: measure_spectrum, or
\* measure_multiple_spectra averaging a single run
OneSpectrum ==
    \/ Returned("measure_spectrum")
    \/ /\ Returned("measure_multiple_spectra")
       /\ ret.args.n_measurements = 1
       /\ ret.args.average

\* C13: every kind string is accepted; a spectrum of kind 'reference' is the
\* baseline plus noise, a spectrum of kind 'sample' and of every other kind,
\* misspelled ones included, is the baseline plus the dips at 450 and at 650
\* plus noise; a call that leaves the kind at its default measures a sample.
C13_KindDispatch ==
    /\ ret.op = "measure_spectrum" /\ is_connected => ret.raised = NoError
    /\ OneSpectrum =>
          LET kind == ret.args.spectrum_type
              got == ret.value.intensities
              t == RequestedTime(ret.args)
          IN  /\ Dips
              /\ kind = "reference" => Synthesized(got, ReferenceAt, ret.draws[1], t)
              /\ kind = "sample" => Synthesized(got, SampleAt, ret.draws[1], t)
              /\ kind \notin {"reference", "sample"} =>
                     /\ Synthesized(got, SampleAt, ret.draws[1], t)
                     /\ ret.op = "measure_spectrum" =>
                           got = MeasuredTable["sample", ret.draws[1], t]
              /\ kind = DefaultSpectrumType => Synthesized(got, SampleAt, ret.draws[1], t)

\* a spectrum of a misspelled kind has been measured
C13_Witness ==
    /\ Returned("measure_spectrum")
    /\ ret.args.spectrum_type = "smaple"
    /\ \E i \in 1..NumPoints : SampleAt(i) # ReferenceAt(i)

====
